---- MODULE Spec2Model ----
(***************************************************************************)
(* Model of the csv_to_markdown tooling:                                   *)
(*   - MarkdownTable (scripts/csv_to_markdown/markdown_processing.py),     *)
(*   - process_csv   (src/csv_to_markdown/csv_processing.py),              *)
(*   - the per-file fan-out of main._csv_processing                        *)
(*     (.github/workflows/issue_dataset_to_pr/main.py).                    *)
(*                                                                         *)
(* A Python str is a sequence of one-character strings, so that            *)
(* splitlines, strip, split and join are computed the way Python computes  *)
(* them.  Python list indices are kept 0-based, as in the source; the      *)
(* element with Python index i of a list l is l[i + 1].                    *)
(***************************************************************************)
EXTENDS Integers, Sequences, FiniteSets, TLC

VARIABLES
    \* ---- MarkdownTable
    md_content,        \* self.md_content: the text of the markdown file
    n_tables,          \* the table ordinal given to __init__
    pc,                \* "new" | "ready" | "IndexError" (position of the caller)
    lines,             \* self.lines
    idx_range_table,   \* self.idx_range_table: [start |-> , end |-> ]
    table_columns,     \* self.table_columns
    calls,             \* number of add_new_row / modify_cell calls made
    last,              \* the last call: its arguments, its outcome, the state before it
    added,             \* rows built by the successful add_new_row calls, in call order
    lines0,            \* self.lines as __init__ left it
    range0,            \* self.idx_range_table as __init__ left it
    edited,            \* TRUE once a modify_cell call has succeeded
    \* ---- process_csv
    df_raw,            \* the grid read_csv returned (a sequence of rows)
    metadata_keys,     \* process_csv's metadata_keys
    data_keys,         \* process_csv's data_keys
    decoded,           \* process_csv's outcome on df_raw
    \* ---- main._csv_processing
    csv_files,         \* the grids of the files handed to executor.map, in order
    future,            \* state of each file's future
    mainpc,            \* position of the thread that builds `results`
    collected,         \* file indices whose (name, result) pair the comprehension has taken
    results            \* the `results` mapping, or Unassigned

mdvars == <<md_content, n_tables, pc, lines, idx_range_table, table_columns,
            calls, last, added, lines0, range0, edited>>
csvvars == <<df_raw, metadata_keys, data_keys, decoded>>
fanvars == <<csv_files, future, mainpc, collected, results>>
vars == <<mdvars, csvvars, fanvars>>

-----------------------------------------------------------------------------
(* Bounds of the model *)

\* most lines a markdown document is assembled from
MaxDocLines == 3
\* most add_new_row / modify_cell calls made on one MarkdownTable
MaxCalls == 2

-----------------------------------------------------------------------------
(* Python's str and list operations *)

Min(S) == CHOOSE i \in S : \A j \in S : i <= j

\* the characters str.strip() removes, among those the documents are made of
Whitespace == {" ", "\n"}

RECURSIVE lstrip(_)
lstrip(s) == IF s # <<>> /\ Head(s) \in Whitespace THEN lstrip(Tail(s)) ELSE s

RECURSIVE rstrip(_)
rstrip(s) ==
    IF s # <<>> /\ s[Len(s)] \in Whitespace
    THEN rstrip(SubSeq(s, 1, Len(s) - 1))
    ELSE s

\* str.strip()
strip(s) == rstrip(lstrip(s))

\* str.splitlines(keepends=True): the source passes "\n" as keepends, which
\* CPython 3.12 and later read as a true value (earlier versions raise TypeError
\* there, and no MarkdownTable can be built at all)
RECURSIVE splitlines(_)
splitlines(s) ==
    IF s = <<>> THEN <<>>
    ELSE LET nl == {i \in 1..Len(s) : s[i] = "\n"}
         IN  IF nl = {} THEN <<s>>
             ELSE <<SubSeq(s, 1, Min(nl))>> \o splitlines(SubSeq(s, Min(nl) + 1, Len(s)))

\* str.split(sep) for a one-character sep
RECURSIVE split(_, _)
split(s, sep) ==
    LET at == {i \in 1..Len(s) : s[i] = sep}
    IN  IF at = {} THEN <<s>>
        ELSE <<SubSeq(s, 1, Min(at) - 1)>> \o split(SubSeq(s, Min(at) + 1, Len(s)), sep)

\* sep.join(parts)
RECURSIVE join(_, _)
join(sep, parts) ==
    IF parts = <<>> THEN <<>>
    ELSE IF Len(parts) = 1 THEN parts[1]
    ELSE parts[1] \o sep \o join(sep, Tail(parts))

\* "".join(parts)
RECURSIVE concat(_)
concat(parts) == IF parts = <<>> THEN <<>> ELSE Head(parts) \o concat(Tail(parts))

\* l[1:-1]
slice_1_m1(l) == IF Len(l) <= 2 THEN <<>> ELSE SubSeq(l, 2, Len(l) - 1)

\* the position l[i] reads or writes for a Python index i, or -1 where Python
\* raises IndexError
py_index(l, i) ==
    IF 0 <= i /\ i < Len(l) THEN i
    ELSE IF -Len(l) <= i /\ i < 0 THEN Len(l) + i
    ELSE -1

\* l.insert(i, x) for 0 <= i
list_insert(l, i, x) ==
    IF i >= Len(l) THEN Append(l, x)
    ELSE SubSeq(l, 1, i) \o <<x>> \o SubSeq(l, i + 1, Len(l))

\* the elements of a finite set of integers in increasing order
RECURSIVE sorted(_)
sorted(S) == IF S = {} THEN <<>> ELSE <<Min(S)>> \o sorted(S \ {Min(S)})

\* list(zip(a, b))
zip(a, b) ==
    LET n == IF Len(a) <= Len(b) THEN Len(a) ELSE Len(b)
    IN  [k \in 1..n |-> <<a[k], b[k]>>]

-----------------------------------------------------------------------------
(* MarkdownTable: the pure parts *)

\* _is_table_line: re.match(r"^\|.*\|$", line.strip()); "." matches no "\n"
_is_table_line(line) ==
    LET s == strip(line)
    IN  /\ Len(s) >= 2
        /\ s[1] = "|"
        /\ s[Len(s)] = "|"
        /\ \A i \in 2..(Len(s) - 1) : s[i] # "\n"

\* _find_tables with end_indices built by the test of start_indices
find_tables_ends_as_starts(md_file) ==
    LET ls == splitlines(md_file)
        table_lines == [k \in 1..Len(ls) |-> _is_table_line(ls[k])]
        indices == 0..(Len(ls) - 1)
        start_indices ==
            sorted({i \in indices : table_lines[i + 1] /\ (i = 0 \/ ~table_lines[i])})
        end_indices ==
            sorted({i \in indices : table_lines[i + 1] /\ (i = 0 \/ ~table_lines[i])})
    IN  zip(start_indices, end_indices)

\* _find_tables: the (start, end) pairs, 0-based and inclusive
_find_tables(md_file) ==
    LET ls == splitlines(md_file)
        table_lines == [k \in 1..Len(ls) |-> _is_table_line(ls[k])]
        indices == 0..(Len(ls) - 1)
        start_indices ==
            sorted({i \in indices : table_lines[i + 1] /\ (i = 0 \/ ~table_lines[i])})
        end_indices ==
            sorted({i \in indices :
                       table_lines[i + 1] /\ (i = Len(ls) - 1 \/ ~table_lines[i + 2])})
    IN  zip(start_indices, end_indices)

\* _md_table_to_lst with the default sep
_md_table_to_lst(table_row) ==
    LET cells == slice_1_m1(split(table_row, "|"))
    IN  [k \in 1..Len(cells) |-> strip(cells[k])]

\* get_markdown
get_markdown(ls) == concat(ls)

\* the set of elements of a list
elements(l) == {l[k] : k \in 1..Len(l)}

\* l.index(x), for x in l
list_index(l, x) == Min({k \in 1..Len(l) : l[k] = x}) - 1

\* new_values.get(col, "")
dict_get(d, col) == IF col \in DOMAIN d THEN d[col] ELSE <<>>

\* "| " + " | ".join(cells) + " |\n"
row_line(cells) == <<"|", " ">> \o join(<<" ", "|", " ">>, cells) \o <<" ", "|", "\n">>

\* add_new_row without its assertion
add_new_row_unchecked(ls, rng, cols, new_values) ==
    LET new_row == row_line([k \in 1..Len(cols) |-> dict_get(new_values, cols[k])])
        end == rng.end + 1
    IN  [outcome |-> "ok",
         lines |-> list_insert(ls, end, new_row),
         idx_range_table |-> [rng EXCEPT !.end = end]]

\* add_new_row on the state (ls, rng, cols): the outcome and the state it leaves
add_new_row(ls, rng, cols, new_values) ==
    IF ~(\A key \in DOMAIN new_values : key \in elements(cols))
    THEN [outcome |-> "AssertionError", lines |-> ls, idx_range_table |-> rng]
    ELSE LET new_row == row_line([k \in 1..Len(cols) |-> dict_get(new_values, cols[k])])
             end == rng.end + 1
         IN  [outcome |-> "ok",
              lines |-> list_insert(ls, end, new_row),
              idx_range_table |-> [rng EXCEPT !.end = end]]

\* the part of modify_cell after its two assertions
modify_cell_body(ls, rng, cols, column_name, idx_row_edit, new_value) ==
    LET column_index == list_index(cols, column_name)
        at == py_index(ls, rng.start + idx_row_edit)
    IN  IF at = -1
        THEN [outcome |-> "IndexError", lines |-> ls]
        ELSE LET table_row == _md_table_to_lst(ls[at + 1])
             IN  IF column_index >= Len(table_row)
                 THEN [outcome |-> "IndexError", lines |-> ls]
                 ELSE LET edited_row ==
                              [table_row EXCEPT
                                  ![column_index + 1] = <<" ">> \o new_value \o <<" ">>]
                      IN  [outcome |-> "ok",
                           lines |-> [ls EXCEPT ![at + 1] = row_line(edited_row)]]

\* modify_cell without the assertion on idx_row_edit
modify_cell_header_allowed(ls, rng, cols, column_name, idx_row_edit, new_value) ==
    IF column_name \notin elements(cols)
    THEN [outcome |-> "AssertionError", lines |-> ls]
    ELSE modify_cell_body(ls, rng, cols, column_name, idx_row_edit, new_value)

\* modify_cell on the state (ls, rng, cols): the outcome and the lines it leaves
modify_cell(ls, rng, cols, column_name, idx_row_edit, new_value) ==
    IF idx_row_edit = 0
    THEN [outcome |-> "AssertionError", lines |-> ls]
    ELSE IF column_name \notin elements(cols)
    THEN [outcome |-> "AssertionError", lines |-> ls]
    ELSE modify_cell_body(ls, rng, cols, column_name, idx_row_edit, new_value)

-----------------------------------------------------------------------------
(* The documents and arguments the calls are made with *)

HeaderLine == <<"|", " ", "A", " ", "|", " ", "B", " ", "|", "\n">>
RowLine == <<"|", " ", "1", " ", "|", " ", "2", " ", "|", "\n">>
TextLine == <<"t", "\n">>
PipeLine == <<"|", "\n">>
LooseRowLine == <<" ", "|", "1", "|", "2", "|", " ", "\n">>
LinePool == {HeaderLine, RowLine, LooseRowLine, TextLine, PipeLine}

\* s without its final character
chop(s) == SubSeq(s, 1, Len(s) - 1)

\* the documents of at most MaxDocLines lines of LinePool, the last line with or
\* without its terminator
Documents ==
    LET texts == UNION {{concat(ls) : ls \in [1..n -> LinePool]} : n \in 0..MaxDocLines}
    IN  texts \cup {chop(t) : t \in texts \ {<<>>}}

Ordinals == 0..(MaxDocLines - 1)

ColA == <<"A">>
ColB == <<"B">>
ColZ == <<"Z">>
NewValuesPool ==
    { (ColA :> <<"3">>) @@ (ColB :> <<"4">>),
      (ColB :> <<"4">>),
      (ColZ :> <<"9">>),
      (ColA :> <<"3">>) @@ (ColZ :> <<"9">>) }
ColumnNames == {ColA, ColB, ColZ}
RowIndexes == (-1)..(MaxDocLines - 1)
CellValues == {<<"x">>}

Unset == [start |-> -1, end |-> -1]
NoCall ==
    [op |-> "none", outcome |-> "none", new_values |-> <<>>, column_name |-> <<>>,
     idx_row_edit |-> 0, new_value |-> <<>>,
     lines |-> <<>>, idx_range_table |-> Unset, table_columns |-> <<>>]

-----------------------------------------------------------------------------
(* MarkdownTable: the operations *)

MdInit ==
    /\ md_content \in Documents
    /\ n_tables \in Ordinals
    /\ pc = "new"
    /\ lines = <<>>
    /\ idx_range_table = Unset
    /\ table_columns = <<>>
    /\ calls = 0
    /\ last = NoCall
    /\ added = <<>>
    /\ lines0 = <<>>
    /\ range0 = Unset
    /\ edited = FALSE

\* MarkdownTable.__init__
Construct ==
    /\ pc = "new"
    /\ LET ls == splitlines(md_content)
           tables == _find_tables(md_content)
           at == py_index(tables, n_tables)
       IN  /\ lines' = ls
           /\ IF at = -1
              THEN /\ pc' = "IndexError"
                   /\ UNCHANGED <<idx_range_table, table_columns, lines0, range0>>
              ELSE LET rng == [start |-> tables[at + 1][1], end |-> tables[at + 1][2]]
                       table_header == strip(ls[rng.start + 1])
                   IN  /\ pc' = "ready"
                       /\ idx_range_table' = rng
                       /\ table_columns' = _md_table_to_lst(table_header)
                       /\ lines0' = ls
                       /\ range0' = rng
    /\ UNCHANGED <<md_content, n_tables, calls, last, added, edited>>
    /\ UNCHANGED <<csvvars, fanvars>>

\* a call of add_new_row
AddNewRow ==
    /\ pc = "ready"
    /\ calls < MaxCalls
    /\ \E new_values \in NewValuesPool :
         LET r == add_new_row(lines, idx_range_table, table_columns, new_values)
         IN  /\ lines' = r.lines
             /\ idx_range_table' = r.idx_range_table
             /\ last' = [NoCall EXCEPT !.op = "add_new_row", !.outcome = r.outcome,
                                       !.new_values = new_values, !.lines = lines,
                                       !.idx_range_table = idx_range_table,
                                       !.table_columns = table_columns]
             /\ added' = IF r.outcome = "ok"
                         THEN Append(added, r.lines[r.idx_range_table.end + 1])
                         ELSE added
    /\ calls' = calls + 1
    /\ UNCHANGED <<md_content, n_tables, pc, table_columns, lines0, range0, edited>>
    /\ UNCHANGED <<csvvars, fanvars>>

\* a call of modify_cell
ModifyCell ==
    /\ pc = "ready"
    /\ calls < MaxCalls
    /\ \E column_name \in ColumnNames, idx_row_edit \in RowIndexes, new_value \in CellValues :
         LET r == modify_cell(lines, idx_range_table, table_columns,
                              column_name, idx_row_edit, new_value)
         IN  /\ lines' = r.lines
             /\ last' = [NoCall EXCEPT !.op = "modify_cell", !.outcome = r.outcome,
                                       !.column_name = column_name,
                                       !.idx_row_edit = idx_row_edit,
                                       !.new_value = new_value, !.lines = lines,
                                       !.idx_range_table = idx_range_table,
                                       !.table_columns = table_columns]
             /\ edited' = (edited \/ r.outcome = "ok")
    /\ calls' = calls + 1
    /\ UNCHANGED <<md_content, n_tables, pc, idx_range_table, table_columns,
                   added, lines0, range0>>
    /\ UNCHANGED <<csvvars, fanvars>>

-----------------------------------------------------------------------------
(* process_csv on the grid read_csv returned *)

\* an empty cell of the grid
NaN == "NaN"

\* Series.isnull().all()
all_null(row) == \A j \in 1..Len(row) : row[j] = NaN

\* what process_csv leaves when it raises
raised(exception) ==
    [outcome |-> exception, metadata |-> <<>>, columns |-> <<>>, rows |-> <<>>]

\* _metatada_content: df.iloc[:len(key_values)], dropna(axis=1, how="all"),
\* the shape assertion, set_index(0).iloc[:, 0].to_dict(), the key assertion
_metatada_content(df, key_values) ==
    LET n == IF Len(key_values) <= Len(df) THEN Len(key_values) ELSE Len(df)
        width == Len(df[1])
        \* the column labels dropna keeps
        kept == {j \in 0..(width - 1) : \E i \in 1..n : df[i][j + 1] # NaN}
    IN  IF Cardinality(kept) # 2 THEN raised("AssertionError")
        ELSE IF 0 \notin kept THEN raised("KeyError")
        ELSE LET value_col == Min(kept \ {0})
                 keys == {df[i][1] : i \in 1..n}
                 \* to_dict keeps the last row of a repeated key
                 dict_metadata ==
                     [k \in keys |->
                         LET at == CHOOSE i \in 1..n :
                                       /\ df[i][1] = k
                                       /\ \A i2 \in 1..n : df[i2][1] = k => i2 <= i
                         IN  df[at][value_col + 1]]
             IN  IF keys # elements(key_values) THEN raised("AssertionError")
                 ELSE [raised("ok") EXCEPT !.metadata = dict_metadata]

\* _dataset_content: df.iloc[metadata_len:], the assertion on the first two
\* columns, iloc[:, 2:], the header row, the key assertion, the remaining rows
_dataset_content(df, key_values, metadata_len) ==
    LET df_dataset == SubSeq(df, metadata_len + 1, Len(df))
        width == Len(df[1])
    IN  IF ~(\A i \in 1..Len(df_dataset) : \A j \in 1..2 : df_dataset[i][j] = NaN)
        THEN raised("AssertionError")
        ELSE IF df_dataset = <<>> THEN raised("IndexError")
        ELSE LET columns == SubSeq(df_dataset[1], 3, width)
             IN  IF elements(columns) # elements(key_values)
                 THEN raised("AssertionError")
                 ELSE [raised("ok") EXCEPT
                          !.columns = columns,
                          !.rows = [i \in 1..(Len(df_dataset) - 1) |->
                                       SubSeq(df_dataset[i + 1], 3, width)]]

\* process_csv from the separator-row assertion on
process_csv(df, meta_keys, dataset_keys) ==
    LET empty_rows == Len(meta_keys) + 1
    IN  IF py_index(df, empty_rows - 1) = -1 THEN raised("IndexError")
        ELSE IF ~all_null(df[empty_rows]) THEN raised("AssertionError")
        ELSE LET m == _metatada_content(df, meta_keys)
             IN  IF m.outcome # "ok" THEN m
                 ELSE LET d == _dataset_content(df, dataset_keys, empty_rows)
                      IN  IF d.outcome # "ok" THEN d
                          ELSE [d EXCEPT !.metadata = m.metadata]

-----------------------------------------------------------------------------
(* The grids and key lists process_csv is called with *)

\* most rows of a grid
MaxRows == 4

MetaRow1 == <<"k1", "v1", NaN, NaN>>
MetaRow2 == <<"k2", "v2", NaN, NaN>>
MetaRowWide == <<"k1", NaN, "v1", NaN>>
MetaRowShifted == <<NaN, "k1", "v1", NaN>>
EmptyRow == <<NaN, NaN, NaN, NaN>>
HeaderRow == <<NaN, NaN, "c1", "c2">>
DataRow == <<NaN, NaN, "d1", "d2">>
RowPool == {MetaRow1, MetaRow2, MetaRowWide, MetaRowShifted, EmptyRow, HeaderRow, DataRow}

Grids == UNION {[1..n -> RowPool] : n \in 1..MaxRows}
MetadataKeyLists == {<<"k1">>, <<"k1", "k2">>}
DataKeyLists == {<<"c1", "c2">>, <<"c1">>}

NotCalled == raised("not called")

-----------------------------------------------------------------------------
(* process_csv: the operation *)

CsvInit ==
    /\ df_raw \in Grids
    /\ metadata_keys \in MetadataKeyLists
    /\ data_keys \in DataKeyLists
    /\ decoded = NotCalled

\* a call of process_csv on a file read_csv could read
Decode ==
    /\ decoded = NotCalled
    /\ decoded' = process_csv(df_raw, metadata_keys, data_keys)
    /\ UNCHANGED <<df_raw, metadata_keys, data_keys>>
    /\ UNCHANGED <<mdvars, fanvars>>

-----------------------------------------------------------------------------
(* main._csv_processing: executor.map over the files, zipped into `results` *)

\* most files one issue links to
MaxFiles == 3
\* worker threads of the ThreadPoolExecutor
MaxWorkers == 2

GoodGrid == <<MetaRow1, EmptyRow, HeaderRow, DataRow>>
BadSeparatorGrid == <<MetaRow1, HeaderRow, DataRow>>
SampleGrids == {GoodGrid, BadSeparatorGrid}
METADATA_KEYS == <<"k1">>
DATA_KEYS == <<"c1", "c2">>

\* the lambda executor.map runs for the file with index i
task_result(i) == process_csv(csv_files[i], METADATA_KEYS, DATA_KEYS)

Unassigned == [assigned |-> FALSE, map |-> <<>>]

running == {i \in 1..Len(csv_files) : future[i] = "running"}
pending == {i \in 1..Len(csv_files) : future[i] = "pending"}

\* executor.map has submitted one future per file; the comprehension has not yet
\* asked for the first result
FanInit ==
    /\ csv_files \in UNION {[1..n -> SampleGrids] : n \in 1..MaxFiles}
    /\ future = [i \in 1..Len(csv_files) |-> "pending"]
    /\ mainpc = "iterating"
    /\ collected = <<>>
    /\ results = Unassigned

\* a worker thread takes the oldest queued work item
StartTask ==
    /\ pending # {}
    /\ Cardinality(running) < MaxWorkers
    /\ future' = [future EXCEPT ![Min(pending)] = "running"]
    /\ UNCHANGED <<csv_files, mainpc, collected, results>>
    /\ UNCHANGED <<mdvars, csvvars>>

\* a worker thread's process_csv call returns or raises
FinishTask ==
    /\ \E i \in running :
         future' = [future EXCEPT
                       ![i] = IF task_result(i).outcome = "ok" THEN "done" ELSE "raised"]
    /\ UNCHANGED <<csv_files, mainpc, collected, results>>
    /\ UNCHANGED <<mdvars, csvvars>>

\* the comprehension takes the next (file, result) pair from zip
TakeResult ==
    /\ mainpc = "iterating"
    /\ Len(collected) < Len(csv_files)
    /\ future[Len(collected) + 1] = "done"
    /\ collected' = Append(collected, Len(collected) + 1)
    /\ UNCHANGED <<csv_files, future, mainpc, results>>
    /\ UNCHANGED <<mdvars, csvvars>>

\* the next future's result() re-raises the task's exception: the map iterator
\* cancels the futures it still holds and the comprehension is abandoned
Reraise ==
    /\ mainpc = "iterating"
    /\ Len(collected) < Len(csv_files)
    /\ future[Len(collected) + 1] = "raised"
    /\ future' = [i \in 1..Len(csv_files) |->
                     IF future[i] = "pending" THEN "cancelled" ELSE future[i]]
    /\ mainpc' = "unwinding"
    /\ UNCHANGED <<csv_files, collected, results>>
    /\ UNCHANGED <<mdvars, csvvars>>

\* zip is exhausted: the comprehension's dict is bound to `results`
AssignResults ==
    /\ mainpc = "iterating"
    /\ Len(collected) = Len(csv_files)
    /\ results' = [assigned |-> TRUE,
                   map |-> [i \in elements(collected) |-> task_result(i)]]
    /\ mainpc' = "leaving"
    /\ UNCHANGED <<csv_files, future, collected>>
    /\ UNCHANGED <<mdvars, csvvars>>

\* the with block's exit, executor.shutdown(wait=True), returns once no task runs
Shutdown ==
    /\ mainpc \in {"unwinding", "leaving"}
    /\ running = {}
    /\ mainpc' = IF mainpc = "leaving" THEN "returned" ELSE "raised"
    /\ UNCHANGED <<csv_files, future, collected, results>>
    /\ UNCHANGED <<mdvars, csvvars>>

-----------------------------------------------------------------------------
(* Specifications: one per component, the other components at rest *)

MdIdle ==
    /\ md_content = <<>>
    /\ n_tables = 0
    /\ pc = "idle"
    /\ lines = <<>>
    /\ idx_range_table = Unset
    /\ table_columns = <<>>
    /\ calls = 0
    /\ last = NoCall
    /\ added = <<>>
    /\ lines0 = <<>>
    /\ range0 = Unset
    /\ edited = FALSE

CsvIdle ==
    /\ df_raw = <<>>
    /\ metadata_keys = <<>>
    /\ data_keys = <<>>
    /\ decoded = raised("idle")

FanIdle ==
    /\ csv_files = <<>>
    /\ future = <<>>
    /\ mainpc = "idle"
    /\ collected = <<>>
    /\ results = Unassigned

Init == MdInit /\ CsvIdle /\ FanIdle
Next == Construct \/ AddNewRow \/ ModifyCell
Spec == Init /\ [][Next]_vars

InitCsv == MdIdle /\ CsvInit /\ FanIdle
NextCsv == Decode
SpecCsv == InitCsv /\ [][NextCsv]_vars

InitFan == MdIdle /\ CsvIdle /\ FanInit
NextFan == StartTask \/ FinishTask \/ TakeResult \/ Reraise \/ AssignResults \/ Shutdown
SpecFan == InitFan /\ [][NextFan]_vars

-----------------------------------------------------------------------------
(* Properties of MarkdownTable, checked under Spec *)

\* the document as a reader of get_markdown sees it, line by line
rendered_lines == splitlines(get_markdown(lines))

\* the terminator a line carries
terminator(line) == IF line # <<>> /\ line[Len(line)] = "\n" THEN <<"\n">> ELSE <<>>

\* the last call was a modify_cell that did not fail
edit_succeeded == last.op = "modify_cell" /\ last.outcome = "ok"

\* the Python index of the line the last modify_cell call addressed
edit_at == py_index(last.lines, last.idx_range_table.start + last.idx_row_edit)

\* the last call was a modify_cell that did not fail and that addressed a row of
\* the selected region below its header
row_edit_succeeded ==
    /\ edit_succeeded
    /\ last.idx_row_edit >= 1
    /\ last.idx_range_table.start < edit_at
    /\ edit_at <= last.idx_range_table.end

\* the Python indices of the lines the last call left different
changed_lines ==
    {i \in 0..(Len(last.lines) - 1) : i >= Len(lines) \/ lines[i + 1] # last.lines[i + 1]}

\* C1: after N successful add_new_row calls (and no edit) the rendered document
\* is the original lines up to the selected table's original last line, then the
\* N new rows in call order, then the original remaining lines, all unchanged.
C1_RowsAppendedInOrder ==
    (pc = "ready" /\ ~edited) =>
        rendered_lines = SubSeq(lines0, 1, range0.end + 1)
                            \o added
                            \o SubSeq(lines0, range0.end + 2, Len(lines0))

\* the same for the documents whose selected table ends on a terminated line:
\* what add_new_row does achieve
RowsAppendedAfterTerminatedLine ==
    (pc = "ready" /\ ~edited /\ terminator(lines0[range0.end + 1]) = <<"\n">>) =>
        rendered_lines = SubSeq(lines0, 1, range0.end + 1)
                            \o added
                            \o SubSeq(lines0, range0.end + 2, Len(lines0))

\* C2: a successful modify_cell leaves every other line as it was and, in the
\* edited line, every cell but the one at column_name's position and the line's
\* terminator as they were.  Stated for the calls that address a row of the
\* selected region; the other calls are C10's.
C2_EditChangesOneCell ==
    row_edit_succeeded =>
        LET column_index == list_index(last.table_columns, last.column_name)
            before == _md_table_to_lst(last.lines[edit_at + 1])
            after == _md_table_to_lst(lines[edit_at + 1])
        IN  /\ Len(lines) = Len(last.lines)
            /\ changed_lines \subseteq {edit_at}
            /\ Len(after) = Len(before)
            /\ \A c \in 1..Len(before) : c # column_index + 1 => after[c] = before[c]
            /\ terminator(lines[edit_at + 1]) = terminator(last.lines[edit_at + 1])

\* the same without the terminator: what modify_cell does keep
EditKeepsOtherCells ==
    edit_succeeded =>
        LET column_index == list_index(last.table_columns, last.column_name)
            before == _md_table_to_lst(last.lines[edit_at + 1])
            after == _md_table_to_lst(lines[edit_at + 1])
        IN  /\ Len(lines) = Len(last.lines)
            /\ changed_lines \subseteq {edit_at}
            /\ Len(after) = Len(before)
            /\ \A c \in 1..Len(before) : c # column_index + 1 => after[c] = before[c]

\* a trimmed line that begins and ends with a pipe character
pipe_bounded(line) ==
    LET s == strip(line) IN s # <<>> /\ s[1] = "|" /\ s[Len(s)] = "|"

\* a trimmed line that begins with a pipe character and ends with another one
two_pipe_bounded(line) ==
    LET s == strip(line) IN Len(s) >= 2 /\ s[1] = "|" /\ s[Len(s)] = "|"

\* the maximal contiguous runs of TRUE in a list of flags, as inclusive Python
\* index pairs in increasing order
maximal_runs(flags) ==
    LET n == Len(flags)
        is_run(a, b) ==
            /\ \A i \in a..b : flags[i + 1]
            /\ (a = 0 \/ ~flags[a])
            /\ (b = n - 1 \/ ~flags[b + 2])
        starts == {a \in 0..(n - 1) : \E b \in a..(n - 1) : is_run(a, b)}
        ordered == sorted(starts)
    IN  [k \in 1..Len(ordered) |->
            <<ordered[k], CHOOSE b \in ordered[k]..(n - 1) : is_run(ordered[k], b)>>]

\* the maximal runs of pipe-bounded lines of a document
pipe_bounded_runs(md_file) ==
    LET ls == splitlines(md_file)
    IN  maximal_runs([k \in 1..Len(ls) |-> pipe_bounded(ls[k])])

\* the maximal runs of two-pipe-bounded lines of a document
two_pipe_bounded_runs(md_file) ==
    LET ls == splitlines(md_file)
    IN  maximal_runs([k \in 1..Len(ls) |-> two_pipe_bounded(ls[k])])

\* C3 as stated: the regions of _find_tables are the maximal runs of lines that,
\* trimmed, begin and end with a pipe character; an ordinal >= K fails with
\* IndexError and selects no region.
C3_RegionsArePipeBoundedRuns ==
    LET runs == pipe_bounded_runs(md_content)
    IN  /\ _find_tables(md_content) = runs
        /\ (pc \in {"ready", "IndexError"} /\ n_tables >= Len(runs)) =>
               (pc = "IndexError" /\ idx_range_table = Unset)

\* C3 amended: the same for the maximal runs of lines that, trimmed, begin with a
\* pipe character and end with another one (a lone "|" is no table line).
C3_RegionsAreTwoPipeRuns ==
    LET runs == two_pipe_bounded_runs(md_content)
    IN  /\ _find_tables(md_content) = runs
        /\ (pc \in {"ready", "IndexError"} /\ n_tables >= Len(runs)) =>
               (pc = "IndexError" /\ idx_range_table = Unset)

\* a document of two regions kept apart by a lone "|" line, opened on ordinal 2
C3_Witness ==
    /\ pc = "IndexError"
    /\ Len(_find_tables(md_content)) = 2
    /\ n_tables = 2
    /\ \E k \in 1..Len(lines) : strip(lines[k]) = <<"|">>

\* C6: modify_cell with idx_row_edit = 0 or an unknown column fails with
\* AssertionError and leaves lines, region bounds and column names unchanged.
C6_HeaderOrUnknownColumnRejected ==
    (/\ last.op = "modify_cell"
     /\ (last.idx_row_edit = 0 \/ last.column_name \notin elements(last.table_columns))) =>
        /\ last.outcome = "AssertionError"
        /\ lines = last.lines
        /\ idx_range_table = last.idx_range_table
        /\ table_columns = last.table_columns

\* modify_cell of a known column on row 0 of a table that has grown by a row
C6_Witness ==
    /\ last.op = "modify_cell"
    /\ last.idx_row_edit = 0
    /\ last.column_name \in elements(last.table_columns)
    /\ last.outcome = "AssertionError"
    /\ added # <<>>

\* C7: add_new_row fails with AssertionError, inserting nothing and keeping the
\* region's end, when some key is no column name; otherwise it succeeds and the
\* new row has one cell per column, in column order, holding the supplied value
\* or the empty string.
C7_AddNewRowValidatesKeys ==
    last.op = "add_new_row" =>
        IF \E key \in DOMAIN last.new_values : key \notin elements(last.table_columns)
        THEN /\ last.outcome = "AssertionError"
             /\ lines = last.lines
             /\ idx_range_table.end = last.idx_range_table.end
        ELSE LET cells == _md_table_to_lst(lines[idx_range_table.end + 1])
             IN  /\ last.outcome = "ok"
                 /\ Len(lines) = Len(last.lines) + 1
                 /\ idx_range_table.end = last.idx_range_table.end + 1
                 /\ Len(cells) = Len(table_columns)
                 /\ \A k \in 1..Len(cells) :
                        cells[k] = dict_get(last.new_values, table_columns[k])

\* a successful add_new_row that names column B only, column A defaulting to ""
C7_Witness ==
    /\ last.op = "add_new_row"
    /\ last.outcome = "ok"
    /\ DOMAIN last.new_values = {ColB}
    /\ table_columns = <<ColA, ColB>>
    /\ _md_table_to_lst(lines[idx_range_table.end + 1]) = <<<<>>, <<"4">>>>

\* C9: after a successful modify_cell the edited line is "| c1 | ... | cn |\n"
\* with new_value at column_name's position, each cell padded by exactly one
\* space on each side, the format add_new_row gives a row of the same cells.
\* Stated for the calls that address a row of the selected region; the other
\* calls are C10's.
C9_EditedLineInRowFormat ==
    row_edit_succeeded =>
        LET column_index == list_index(last.table_columns, last.column_name)
            before == _md_table_to_lst(last.lines[edit_at + 1])
        IN  lines[edit_at + 1] =
                row_line([before EXCEPT ![column_index + 1] = last.new_value])

\* C10: a modify_cell that does not fail changes only a line of the selected
\* region below its header: region.start < index <= region.end.
C10_EditStaysInRegion ==
    edit_succeeded =>
        \A i \in changed_lines :
            idx_range_table.start < i /\ i <= idx_range_table.end

\* the regions _find_tables finds in the document get_markdown renders
redetected == _find_tables(get_markdown(lines))

\* only successful add_new_row calls, at least one, have changed the table
only_rows_added == pc = "ready" /\ ~edited /\ added # <<>>

\* C11: after successful add_new_row calls on ordinal n, table detection on the
\* rendered document finds as many regions as in the original document and, at
\* ordinal n, the region with the tracked start and the tracked end.
C11_RenderedRegionIsTracked ==
    only_rows_added =>
        /\ Len(redetected) = Len(_find_tables(md_content))
        /\ n_tables < Len(redetected)
        /\ redetected[n_tables + 1] = <<idx_range_table.start, idx_range_table.end>>

\* the same for the documents whose selected table ends on a terminated line
RenderedRegionIsTrackedAfterTerminatedLine ==
    (only_rows_added /\ terminator(lines0[range0.end + 1]) = <<"\n">>) =>
        /\ Len(redetected) = Len(_find_tables(md_content))
        /\ n_tables < Len(redetected)
        /\ redetected[n_tables + 1] = <<idx_range_table.start, idx_range_table.end>>

-----------------------------------------------------------------------------
(* Properties of process_csv, checked under SpecCsv *)

decode_called == decoded.outcome \notin {"not called", "idle"}

\* the grid is laid out as C4 requires for the given key lists
well_formed(df, meta_keys, dataset_keys) ==
    LET n == Len(meta_keys)
        width == Len(df[1])
        filled == {j \in 1..width : \E i \in 1..n : df[i][j] # NaN}
    IN  /\ Len(df) >= n + 2
        /\ all_null(df[n + 1])
        /\ Cardinality(filled) = 2
        /\ {df[i][Min(filled)] : i \in 1..n} = elements(meta_keys)
        /\ \A i \in (n + 2)..Len(df) : df[i][1] = NaN /\ df[i][2] = NaN
        /\ {df[n + 2][j] : j \in 3..width} = elements(dataset_keys)

\* C4: on a well-formed grid process_csv succeeds, the metadata mapping's key
\* set is metadata_keys and the dataset's column-name set is dataset_keys.
C4_WellFormedGridDecodes ==
    (decode_called /\ well_formed(df_raw, metadata_keys, data_keys)) =>
        /\ decoded.outcome = "ok"
        /\ DOMAIN decoded.metadata = elements(metadata_keys)
        /\ elements(decoded.columns) = elements(data_keys)

\* the same for the grids whose key column is the grid's first column
FirstColumnKeyedGridDecodes ==
    (/\ decode_called
     /\ well_formed(df_raw, metadata_keys, data_keys)
     /\ \E i \in 1..Len(metadata_keys) : df_raw[i][1] # NaN) =>
        /\ decoded.outcome = "ok"
        /\ DOMAIN decoded.metadata = elements(metadata_keys)
        /\ elements(decoded.columns) = elements(data_keys)

\* C5: a grid with fewer than len(metadata_keys) + 1 rows, or whose row
\* len(metadata_keys) is not entirely empty, makes process_csv fail with the
\* structural validation failure (AssertionError) and return nothing.
C5_SeparatorViolationIsStructureError ==
    (/\ decode_called
     /\ \/ Len(df_raw) < Len(metadata_keys) + 1
        \/ ~all_null(df_raw[Len(metadata_keys) + 1])) =>
        decoded = raised("AssertionError")

-----------------------------------------------------------------------------
(* Properties of the fan-out, checked under SpecFan *)

\* C8: once _csv_processing has finished, every sibling of a file whose decode
\* raised AssertionError has run to completion and has its result in `results`
\* under its own name.
C8_SiblingsOfFailedFileCollected ==
    mainpc \in {"returned", "raised"} =>
        \A i, j \in 1..Len(csv_files) :
            (i # j /\ task_result(i).outcome = "AssertionError") =>
                /\ future[j] \in {"done", "raised"}
                /\ results.assigned
                /\ j \in DOMAIN results.map

====
